---- MODULE Spec2Model ----
(***************************************************************************)
(* A model of airtable_backup_improved.py: the paginated record fetcher    *)
(* (fetch_records), the attachment downloader (download_attachment) and    *)
(* the multi-format writer (write_progressive_output and its writers),     *)
(* and the run over bases and tables (backup_workspace).                   *)
(*                                                                         *)
(* Python values are modelled as follows.  A string that the code only     *)
(* passes around is a TLA+ string; a string the code inspects character by *)
(* character (an attachment's filename) is a sequence of one-character     *)
(* strings.  Python's None is the string "None".  A field value is tagged  *)
(* with its shape: a scalar, a list of scalars, or a list of attachment    *)
(* dicts.  A file is a record whose st field says whether it is absent,    *)
(* completely written ("ok") or was opened for writing and left incomplete *)
(* by a failed write ("torn").                                             *)
(***************************************************************************)
EXTENDS Naturals, Integers, Sequences, FiniteSets, TLC

VARIABLES
    PANDAS_AVAILABLE,        \* module flag, set by the import at startup
    SQLITE_UTILS_AVAILABLE,  \* module flag, set by the import at startup
    pc,                      \* position of the control flow
    records,                 \* fetch_records: the accumulated list
    offset,                  \* fetch_records: the cursor of the next request
    page_count,              \* fetch_records: pages requested so far
    data,                    \* fetch_records: the decoded response of this page
    todo,                    \* attachments of this page not yet handed to download_attachment
    stats,                   \* self.stats
    fs,                      \* the table's snapshot files, one per format
    db,                      \* the table's rows in data/sqlite/<base>.db
    folder,                  \* the table's attachments directory: filename -> content
    served,                  \* history: the responses the server gave to this fetch
    sent,                    \* history: the offset parameter of every page request
    gets,                    \* history: the url of every attachment GET issued
    completed,               \* history: attachment downloads that ran to completion
    flushes,                 \* history: one entry per write_progressive_output call
    ret,                     \* how fetch_records ended, and with which list
    calls,                   \* history: the download_attachment calls made (url, filename)
    run,                     \* backup_workspace: its locals, the metadata and report files, its history
    disk                     \* the output directory of a base: every table's files and row-store table

vars == <<PANDAS_AVAILABLE, SQLITE_UTILS_AVAILABLE, pc, records, offset, page_count,
          data, todo, stats, fs, db, folder, served, sent, gets, completed,
          flushes, ret, calls, run, disk>>

(***************************************************************************)
(* Bounds of the model.                                                    *)
(***************************************************************************)
MaxPages == 2
MaxPageLen == 2
MaxCalls == 3
MaxRuns == 2

(***************************************************************************)
(* Program constants.                                                      *)
(***************************************************************************)
MAX_RETRIES == 3

None == "None"
TableName == "Tasks"

(***************************************************************************)
(* Sequences.                                                              *)
(***************************************************************************)
RECURSIVE Concat(_)
Concat(ss) == IF ss = <<>> THEN <<>> ELSE Head(ss) \o Concat(Tail(ss))

Range(s) == {s[i] : i \in 1..Len(s)}

SeqsUpTo(S, n) == UNION {[1..k -> S] : k \in 0..n}

Injective(s) == \A i, j \in 1..Len(s) : s[i] = s[j] => i = j

(***************************************************************************)
(* The remote data: field values, attachments and records.                 *)
(***************************************************************************)
S(v) == [k |-> "scalar", v |-> <<v>>]
L(items) == [k |-> "list", v |-> items]
A(atts) == [k |-> "attachments", v |-> atts]

Att1 == [url |-> "url1", filename |-> <<"a">>]
Att2 == [url |-> "url2", filename |-> <<"b">>]

R1 == [id |-> "rec1", fields |-> ("Name" :> S("a"))]
R1c == [id |-> "rec1", fields |-> ("Name" :> S("c") @@ "Notes" :> S("n"))]
R2 == [id |-> "rec2", fields |-> ("Name" :> S("b") @@ "Tags" :> L(<<"x", "y">>)
                                  @@ "Files" :> A(<<Att1, Att2>>))]

RemoteRecords == {R1, R1c, R2}

\* The order Python's sorted() gives the field names of the model.
SortOrder == <<"Files", "Name", "Notes", "Tags", "id">>

Sorted(names) == SelectSeq(SortOrder, LAMBDA n : n \in names)

(***************************************************************************)
(* Text.  A string built by str.join is kept as its parts and separator;   *)
(* joining fewer than two parts leaves no trace of the separator.  The     *)
(* repr of a Python list (str(value)) keeps its items under "repr".        *)
(***************************************************************************)
Join(sep, parts) == [parts |-> parts, sep |-> IF Len(parts) > 1 THEN sep ELSE ""]
Str(v) == Join("", <<v>>)
EmptyStr == Join("", <<>>)
PyRepr(items) == [parts |-> items, sep |-> "repr"]
Null == [parts |-> <<>>, sep |-> "NULL"]

Urls(atts) == [i \in 1..Len(atts) |-> atts[i].url]

(***************************************************************************)
(* Files.                                                                  *)
(***************************************************************************)
Absent == [st |-> "absent"]
Torn == [st |-> "torn"]

\* A write that raised: open() failed and the file is as before, or the
\* file was truncated by open(.., 'w') and the write did not complete.
FailedWrite(old, torn) == IF torn THEN Torn ELSE old

\* json.dump(records, f, indent=2): the document is the record list.
WriteJson(recs) == [st |-> "ok", doc |-> recs]

\* Only the first record is written out.
WriteNdjsonFirstLine(recs) ==
    [st |-> "ok", lines |-> IF recs = <<>> THEN <<>> ELSE <<Head(recs)>>]

\* One json.dumps(record) line per record.
WriteNdjson(recs) == [st |-> "ok", lines |-> [i \in 1..Len(recs) |-> recs[i]]]

\* yaml.dump(records, f, ...): the document is the record list.
WriteYaml(recs) == [st |-> "ok", doc |-> recs]

(***************************************************************************)
(* write_csv.                                                              *)
(***************************************************************************)
CsvCell(value) ==
    IF value.k = "attachments" THEN Join("; ", Urls(value.v))
    ELSE IF value.k = "list" THEN Join("; ", value.v)
    ELSE Str(value.v[1])

\* flat_record = {'id': record['id']}, then one assignment per field: a
\* field that is itself named 'id' replaces the record id.
FlatRecord(record) ==
    [f \in DOMAIN record.fields \cup {"id"} |->
        IF f \in DOMAIN record.fields THEN CsvCell(record.fields[f])
        ELSE Str(record.id)]

AllFieldnames(flat) == UNION {DOMAIN flat[i] : i \in 1..Len(flat)}

\* A writer that leaves out the cells a row has no key for.
DictRowOmitsMissing(fieldnames, row) == row

\* csv.DictWriter: a key the row lacks is written as the empty string.
DictRow(fieldnames, row) ==
    [c \in Range(fieldnames) |-> IF c \in DOMAIN row THEN row[c] ELSE EmptyStr]

\* The file write_csv leaves when it is called with a non-empty list.
WriteCsv(recs) ==
    LET flattened_records == [i \in 1..Len(recs) |-> FlatRecord(recs[i])]
        fieldnames == Sorted(AllFieldnames(flattened_records))
    IN  [st |-> "ok", header |-> fieldnames,
         rows |-> [i \in 1..Len(recs) |-> DictRow(fieldnames, flattened_records[i])]]

(***************************************************************************)
(* write_parquet.                                                          *)
(***************************************************************************)
ParquetCell(value) ==
    IF value.k = "scalar" THEN Str(value.v[1])
    ELSE IF value.k = "list" THEN PyRepr(value.v)
    ELSE PyRepr(Urls(value.v))

ParquetRow(record) ==
    [f \in DOMAIN record.fields \cup {"id"} |->
        IF f \in DOMAIN record.fields THEN ParquetCell(record.fields[f])
        ELSE Str(record.id)]

\* pd.DataFrame(df_data): the columns are the union of the keys, a key a
\* row lacks is null.
WriteParquet(recs) ==
    LET df_data == [i \in 1..Len(recs) |-> ParquetRow(recs[i])]
        columns == AllFieldnames(df_data)
    IN  [st |-> "ok", columns |-> columns,
         rows |-> [i \in 1..Len(recs) |->
                     [c \in columns |-> IF c \in DOMAIN df_data[i] THEN df_data[i][c] ELSE Null]]]

(***************************************************************************)
(* write_sqlite.  The table is a set of columns and a sequence of rows,    *)
(* each row a function from the table's columns to a cell.                 *)
(***************************************************************************)
NoTable == [exists |-> FALSE, columns |-> {}, rows |-> <<>>]

\* ALTER TABLE .. ADD COLUMN: the rows there are get NULL in a new column.
Widen(rows, columns) ==
    [i \in 1..Len(rows) |->
        [c \in columns |-> IF c \in DOMAIN rows[i] THEN rows[i][c] ELSE Null]]

\* The sqlite_utils branch: a list becomes the ", "-joined urls of its
\* attachment dicts, or str(value) when it holds none.
SqlCell(value) ==
    IF value.k = "attachments" /\ value.v # <<>> THEN Join(", ", Urls(value.v))
    ELSE IF value.k = "scalar" THEN Str(value.v[1])
    ELSE PyRepr(value.v)

\* fields = record['fields'].copy(); fields['id'] = record['id']
ProcessedRecord(record) ==
    [f \in DOMAIN record.fields \cup {"id"} |->
        IF f = "id" THEN Str(record.id) ELSE SqlCell(record.fields[f])]

\* sqlite_utils upsert of one record: INSERT OR IGNORE of the key, then an
\* UPDATE of every column of the batch in the row with that key.
UpsertOne(rows, columns, all_columns, rec) ==
    LET hit == {i \in 1..Len(rows) : rows[i]["id"] = rec["id"]}
        new == [c \in columns |-> IF c \in DOMAIN rec THEN rec[c] ELSE Null]
        upd(old) == [c \in columns |->
                       IF c \in all_columns
                       THEN (IF c \in DOMAIN rec THEN rec[c] ELSE Null)
                       ELSE old[c]]
    IN  IF hit = {} THEN Append(rows, new)
        ELSE [i \in 1..Len(rows) |-> IF i \in hit THEN upd(rows[i]) ELSE rows[i]]

RECURSIVE UpsertEach(_, _, _, _)
UpsertEach(rows, columns, all_columns, recs) ==
    IF recs = <<>> THEN rows
    ELSE UpsertEach(UpsertOne(rows, columns, all_columns, Head(recs)),
                    columns, all_columns, Tail(recs))

\* db[safe_table_name].upsert_all(processed_records, pk='id', alter=True)
UpsertAll(d, processed_records) ==
    LET all_columns == AllFieldnames(processed_records)
        columns == d.columns \cup all_columns
    IN  [exists |-> TRUE, columns |-> columns,
         rows |-> UpsertEach(Widen(d.rows, columns), columns, all_columns,
                             processed_records)]

\* The sqlite3 branch, one record: fields.copy(), the id, None for every
\* field of the batch the record lacks.
FallbackFields(record, all_fieldnames) ==
    [f \in DOMAIN record.fields \cup {"id"} \cup all_fieldnames |->
        IF f = "id" THEN Str(record.id)
        ELSE IF f \in DOMAIN record.fields THEN record.fields[f]
        ELSE Null]

\* sqlite3 binds str and None and refuses a list.
Bindable(fields) ==
    \A f \in DOMAIN fields : f # "id" /\ fields[f] # Null => fields[f].k = "scalar"

BoundRow(columns, fields) ==
    [c \in columns |->
        IF c \notin DOMAIN fields THEN Null
        ELSE IF c = "id" \/ fields[c] = Null THEN fields[c]
        ELSE Str(fields[c].v[1])]

\* INSERT OR REPLACE: the row with the same primary key is deleted, the new
\* row is inserted.
InsertOrReplace(rows, columns, fields) ==
    SelectSeq(rows, LAMBDA r : r["id"] # fields["id"]) \o <<BoundRow(columns, fields)>>

RECURSIVE InsertEach(_, _, _)
InsertEach(rows, columns, fieldss) ==
    IF fieldss = <<>> THEN rows
    ELSE InsertEach(InsertOrReplace(rows, columns, Head(fieldss)), columns, Tail(fieldss))

\* The sqlite3 branch: CREATE TABLE IF NOT EXISTS with the fields of this
\* batch, then one INSERT OR REPLACE per record and a commit.  A statement
\* that raises (a column the table lacks, a value that cannot be bound, a
\* field named id in the CREATE) ends the writer in its except clause, the
\* connection is dropped uncommitted and the inserts are rolled back.
WriteSqliteFallback(d, recs) ==
    LET all_fieldnames == UNION {DOMAIN recs[i].fields : i \in 1..Len(recs)}
        fieldss == [i \in 1..Len(recs) |-> FallbackFields(recs[i], all_fieldnames)]
        created == IF d.exists THEN d
                   ELSE [exists |-> TRUE, columns |-> {"id"} \cup all_fieldnames,
                         rows |-> <<>>]
        ok == \A i \in 1..Len(recs) :
                  DOMAIN fieldss[i] \subseteq created.columns /\ Bindable(fieldss[i])
    IN  IF ~d.exists /\ "id" \in all_fieldnames THEN [db |-> d, error |-> TRUE]
        ELSE IF ~ok THEN [db |-> created, error |-> TRUE]
        ELSE [db |-> [created EXCEPT !.rows = InsertEach(created.rows, created.columns,
                                                         fieldss)],
              error |-> FALSE]

\* write_sqlite called with a non-empty list, no error from the environment:
\* the table it leaves, and whether its except clause was entered.
WriteSqlite(d, recs) ==
    IF SQLITE_UTILS_AVAILABLE
    THEN [db |-> UpsertAll(d, [i \in 1..Len(recs) |-> ProcessedRecord(recs[i])]),
          error |-> FALSE]
    ELSE WriteSqliteFallback(d, recs)

(***************************************************************************)
(* write_progressive_output.  The writers run in the order of the code.    *)
(* fail names the format whose write the environment fails in this call    *)
(* ("none": no failure), torn tells whether that write had already         *)
(* truncated its file.  The JSON, NDJSON, YAML and CSV writes run outside  *)
(* any try block, so an error in one of them leaves the function at once;  *)
(* write_sqlite and write_parquet catch their errors themselves.           *)
(***************************************************************************)
Formats == {"json", "ndjson", "yaml", "csv", "sqlite", "parquet"}
Pos == [json |-> 1, ndjson |-> 2, yaml |-> 3, csv |-> 4, sqlite |-> 5, parquet |-> 6]
Unguarded == {"json", "ndjson", "yaml", "csv"}

\* The formats a flush is meant to write.
Enabled == {f \in Formats : f = "parquet" => PANDAS_AVAILABLE}

\* The failures the environment can cause in a flush of recs: a writer that
\* returns at once on an empty list, or is not called, cannot fail.
CanFail(recs, fail, torn) ==
    /\ fail = "none" => ~torn
    /\ fail \in {"csv", "sqlite", "parquet"} => recs # <<>>
    /\ fail = "parquet" => PANDAS_AVAILABLE
    /\ fail = "sqlite" => ~torn

\* The writers whose call is reached.
Called(fail) ==
    {f \in Enabled : fail \in Unguarded => Pos[f] <= Pos[fail]}

WriteProgressiveOutput(f, d, recs, fail, torn) ==
    LET called == Called(fail)
        file(fmt, content) ==
            IF fmt \notin called THEN f[fmt]
            ELSE IF fail = fmt THEN FailedWrite(f[fmt], torn)
            ELSE content
        sql == IF recs = <<>> \/ "sqlite" \notin called \/ fail = "sqlite"
               THEN [db |-> d, error |-> FALSE]
               ELSE WriteSqlite(d, recs)
    IN  [fs |-> [json |-> file("json", WriteJson(recs)),
                 ndjson |-> file("ndjson", WriteNdjson(recs)),
                 yaml |-> file("yaml", WriteYaml(recs)),
                 csv |-> IF recs = <<>> THEN f.csv ELSE file("csv", WriteCsv(recs)),
                 parquet |-> IF recs = <<>> THEN f.parquet
                             ELSE file("parquet", WriteParquet(recs))],
         db |-> sql.db,
         called |-> called,
         errors |-> (Formats \cap {fail}) \cup (IF sql.error THEN {"sqlite"} ELSE {}),
         raised |-> fail \in Unguarded]

(***************************************************************************)
(* download_attachment.                                                    *)
(***************************************************************************)
Alnum == {"a", "b"}
Kept == Alnum \cup {" ", "-", "_", "."}

RECURSIVE RStrip(_)
RStrip(s) ==
    IF s # <<>> /\ s[Len(s)] = " " THEN RStrip(SubSeq(s, 1, Len(s) - 1)) ELSE s

\* "".join(c for c in filename if c.isalnum() or c in (' ', '-', '_', '.')).rstrip()
SafeFilename(filename) == RStrip(SelectSeq(filename, LAMBDA c : c \in Kept))

\* The check left out: every request downloads again.
ExistsNever(dir, safe_filename) == FALSE

\* filepath.exists() for filepath = folder / safe_filename: with an empty
\* name the path is the attachments directory itself, which exists.
Exists(dir, safe_filename) == safe_filename = <<>> \/ safe_filename \in DOMAIN dir

\* Every request is let through to the network, file or no file.
OutcomesAlwaysDownload(dir, filename) == {"ok", "error", "partial"}

\* What the environment can do to a download: nothing to a skipped one;
\* otherwise the GET succeeds and the file is written ("ok"), the GET or
\* the open raises ("error"), or the transfer breaks after the file was
\* opened ("partial").
Outcomes(dir, filename) ==
    IF Exists(dir, SafeFilename(filename)) THEN {"skip"} ELSE {"ok", "error", "partial"}

Put(dir, name, content) ==
    [n \in DOMAIN dir \cup {name} |-> IF n = name THEN content ELSE dir[n]]

\* The counter moved before the transfer: a broken transfer is counted.
DownloadedOnOpen(n, outcome) == IF outcome \in {"ok", "partial"} THEN n + 1 ELSE n

\* The counter after a download with the given outcome.
Downloaded(n, outcome) == IF outcome = "ok" THEN n + 1 ELSE n

\* The exception of a failed download let out as a table-level error.
DownloadAttachmentRaises(dir, st, url, filename, outcome) ==
    [folder |-> dir,
     stats |-> IF outcome \in {"error", "partial"}
               THEN [st EXCEPT !.errors = Append(@, [table |-> TableName,
                                                     msg |-> "download failed"])]
               ELSE [st EXCEPT !.attachments_downloaded = Downloaded(@, outcome)],
     requested |-> outcome # "skip"]

DownloadAttachment(dir, st, url, filename, outcome) ==
    LET safe_filename == SafeFilename(filename)
    IN  [folder |-> IF outcome = "ok" THEN Put(dir, safe_filename, [st |-> "ok", url |-> url])
                    ELSE IF outcome = "partial"
                         THEN Put(dir, safe_filename, [st |-> "torn", url |-> url])
                    ELSE dir,
         stats |-> [st EXCEPT !.attachments_downloaded = Downloaded(@, outcome)],
         requested |-> outcome # "skip"]

\* process_attachments over the records of a page: the (url, filename) of
\* every attachment dict, in record, field and list order.
RECURSIVE FieldAttachments(_, _)
FieldAttachments(fields, names) ==
    IF names = <<>> THEN <<>>
    ELSE (IF fields[Head(names)].k = "attachments" THEN fields[Head(names)].v ELSE <<>>)
         \o FieldAttachments(fields, Tail(names))

RECURSIVE PageAttachments(_)
PageAttachments(page) ==
    IF page = <<>> THEN <<>>
    ELSE FieldAttachments(Head(page).fields, Sorted(DOMAIN Head(page).fields))
         \o PageAttachments(Tail(page))

(***************************************************************************)
(* The server.  A table is served as at most MaxPages pages of at most     *)
(* MaxPageLen records; no record is served twice in one fetch, but a       *)
(* record may come back changed under the same id (R1, R1c).  The cursor   *)
(* of page k is Cursors[k]; the last page has no offset key, or an empty   *)
(* one.                                                                    *)
(***************************************************************************)
Cursors == <<"cur2", "cur3", "cur4", "cur5">>

Pages(recs) == {p \in SeqsUpTo(RemoteRecords, MaxPageLen) : Injective(recs \o p)}

Responses(recs, k) ==
    {[records |-> p] : p \in Pages(recs)}
    \cup {[records |-> p, offset |-> ""] : p \in Pages(recs)}
    \cup (IF k < MaxPages THEN {[records |-> p, offset |-> Cursors[k]] : p \in Pages(recs)}
          ELSE {})

\* data.get('offset')
GetOffset(d) == IF "offset" \in DOMAIN d THEN d.offset ELSE None

\* Python's truth value of an offset: None and '' are false.
Truthy(o) == o \notin {None, ""}

\* Every request sent without a cursor.
ParamsDropsCursor(o) == None

\* params = {'offset': offset} if offset else {}
Params(o) == IF Truthy(o) THEN o ELSE None

(***************************************************************************)
(* fetch_records.                                                          *)
(***************************************************************************)
Running == [kind |-> "running", value |-> <<>>]

\* return records
Return(recs) == [kind |-> "returned", value |-> recs]

\* The except clause returning a fresh list instead of the accumulated one.
FetchExceptDropsList(st, recs, e) ==
    [stats |-> [st EXCEPT !.errors = Append(@, [table |-> TableName, msg |-> e])],
     ret |-> [kind |-> "returned", value |-> <<>>]]

\* except Exception as e: the error is appended to the run error list and
\* the list accumulated so far is returned.
FetchExceptFor(st, table_name, recs, e) ==
    [stats |-> [st EXCEPT !.errors = Append(@, [table |-> table_name, msg |-> e])],
     ret |-> Return(recs)]

FetchExcept(st, recs, e) == FetchExceptFor(st, TableName, recs, e)

\* records.extend(page_records)
Extend(recs, page_records) == recs \o page_records

\* Lines 168-184, the request answered with a well-formed page.
RequestPage ==
    /\ pc = "request"
    /\ page_count < MaxPages
    /\ \E response \in Responses(records, page_count + 1) :
          /\ page_count' = page_count + 1
          /\ sent' = Append(sent, Params(offset))
          /\ data' = response
          /\ served' = Append(served, response)
          /\ records' = Extend(records, response.records)
          /\ todo' = PageAttachments(response.records)
          /\ pc' = "attach"
    /\ UNCHANGED <<PANDAS_AVAILABLE, SQLITE_UTILS_AVAILABLE, offset, stats, fs, db,
                   folder, gets, completed, flushes, ret, calls, run, disk>>

\* Lines 168-181 and 203-206: the request raises (requests.get or
\* raise_for_status), or the response has no 'records' (response.json() or
\* data['records'] raises).
RequestFails ==
    /\ pc = "request"
    /\ page_count < MaxPages
    /\ \E e \in {"request failed", "malformed response"} :
          LET out == FetchExcept(stats, records, e)
          IN  /\ page_count' = page_count + 1
              /\ sent' = Append(sent, Params(offset))
              /\ stats' = out.stats
              /\ ret' = out.ret
              /\ pc' = "returned"
    /\ UNCHANGED <<PANDAS_AVAILABLE, SQLITE_UTILS_AVAILABLE, records, offset, data, todo,
                   fs, db, folder, served, gets, completed, flushes>>
    /\ UNCHANGED <<calls, run, disk>>

\* One call of download_attachment and what it leaves behind.
Download(att, outcome) ==
    LET out == DownloadAttachment(folder, stats, att.url, att.filename, outcome)
    IN  /\ folder' = out.folder
        /\ stats' = out.stats
        /\ gets' = IF out.requested THEN Append(gets, att.url) ELSE gets
        /\ completed' = IF outcome = "ok" THEN completed + 1 ELSE completed
        /\ calls' = Append(calls, [url |-> att.url, filename |-> att.filename,
                                   outcome |-> outcome, requested |-> out.requested,
                                   counted |-> out.stats.attachments_downloaded
                                               - stats.attachments_downloaded])

\* Lines 187-188: the next attachment of the page.
ProcessAttachments ==
    /\ pc = "attach"
    /\ todo # <<>>
    /\ \E outcome \in Outcomes(folder, Head(todo).filename) : Download(Head(todo), outcome)
    /\ todo' = Tail(todo)
    /\ UNCHANGED <<PANDAS_AVAILABLE, SQLITE_UTILS_AVAILABLE, pc, records, offset,
                   page_count, data, fs, db, served, sent, flushes, ret, run, disk>>

\* The flush handed the records of the page alone.
FlushBatchPageOnly(recs, page_records) == page_records

\* The list handed to write_progressive_output: the accumulated records.
FlushBatch(recs, page_records) == recs

\* Lines 191-201 and 203-206: the flush of the accumulated list, then the
\* cursor of the response decides between the next request and the return.
Flush ==
    /\ pc = "attach"
    /\ todo = <<>>
    /\ \E fail \in Formats \cup {"none"}, torn \in BOOLEAN :
          /\ CanFail(FlushBatch(records, data.records), fail, torn)
          /\ LET out == WriteProgressiveOutput(fs, db, FlushBatch(records, data.records),
                                               fail, torn)
                 exc == FetchExcept(stats, records, "write failed")
             IN  /\ fs' = out.fs
                 /\ db' = out.db
                 /\ flushes' = Append(flushes, [batch |-> FlushBatch(records, data.records), page |-> page_count,
                                                calls |-> Len(calls),
                                                called |-> out.called, env |-> fail,
                                                errors |-> out.errors])
                 /\ IF out.raised
                    THEN /\ stats' = exc.stats
                         /\ ret' = exc.ret
                         /\ pc' = "returned"
                         /\ offset' = offset
                    ELSE /\ offset' = GetOffset(data)
                         /\ stats' = stats
                         /\ IF Truthy(GetOffset(data))
                            THEN pc' = "request" /\ ret' = ret
                            ELSE pc' = "returned" /\ ret' = Return(records)
    /\ UNCHANGED <<PANDAS_AVAILABLE, SQLITE_UTILS_AVAILABLE, records, page_count, data,
                   todo, folder, served, sent, gets, completed, calls, run, disk>>

\* An output directory just created: no table has files or rows in it.
NoDisk == [files |-> <<>>, tables |-> <<>>]

\* backup_workspace not entered: no base listed, nothing written.
NoRun == [base_info |-> None, b |-> 0, tables |-> <<>>, t |-> 0, log |-> <<>>,
          metadata |-> Absent, report |-> Absent,
          exc |-> [kind |-> None, at |-> None]]

NoFiles == [json |-> Absent, ndjson |-> Absent, yaml |-> Absent, csv |-> Absent,
            parquet |-> Absent]

NoStats == [bases_processed |-> 0, tables_processed |-> 0, records_processed |-> 0,
            attachments_downloaded |-> 0, errors |-> <<>>]

\* A fresh output directory and the first call of fetch_records.
Init ==
    /\ PANDAS_AVAILABLE \in BOOLEAN
    /\ SQLITE_UTILS_AVAILABLE \in BOOLEAN
    /\ pc = "request"
    /\ records = <<>>
    /\ offset = None
    /\ page_count = 0
    /\ data = [records |-> <<>>]
    /\ todo = <<>>
    /\ stats = NoStats
    /\ fs = NoFiles
    /\ db = NoTable
    /\ folder = <<>>
    /\ served = <<>>
    /\ sent = <<>>
    /\ gets = <<>>
    /\ completed = 0
    /\ flushes = <<>>
    /\ ret = Running
    /\ calls = <<>>
    /\ run = NoRun
    /\ disk = NoDisk

Next == RequestPage \/ RequestFails \/ ProcessAttachments \/ Flush

Spec == Init /\ [][Next]_vars

(***************************************************************************)
(* download_attachment on its own: a caller asks for attachments one after *)
(* the other, for one destination folder.                                  *)
(***************************************************************************)
AttachmentInputs ==
    {[url |-> "url1", filename |-> <<"a">>],
     [url |-> "url2", filename |-> <<"a", "?">>],
     [url |-> "url3", filename |-> <<"?">>]}

InitAttach ==
    /\ PANDAS_AVAILABLE = TRUE
    /\ SQLITE_UTILS_AVAILABLE = TRUE
    /\ pc = "download"
    /\ records = <<>>
    /\ offset = None
    /\ page_count = 0
    /\ data = [records |-> <<>>]
    /\ todo = <<>>
    /\ stats = NoStats
    /\ fs = NoFiles
    /\ db = NoTable
    /\ folder = <<>>
    /\ served = <<>>
    /\ sent = <<>>
    /\ gets = <<>>
    /\ completed = 0
    /\ flushes = <<>>
    /\ ret = Running
    /\ calls = <<>>
    /\ run = NoRun
    /\ disk = NoDisk

CallDownload ==
    /\ pc = "download"
    /\ Len(calls) < MaxCalls
    /\ \E att \in AttachmentInputs :
          \E outcome \in Outcomes(folder, att.filename) : Download(att, outcome)
    /\ UNCHANGED <<PANDAS_AVAILABLE, SQLITE_UTILS_AVAILABLE, pc, records, offset,
                   page_count, data, todo, fs, db, served, sent, flushes, ret, run, disk>>

NextAttach == CallDownload

SpecAttach == InitAttach /\ [][NextAttach]_vars

(***************************************************************************)
(* backup_workspace: the run over the bases and their tables.  The         *)
(* workspace has the bases A, B, C; a fetch of a table is taken as a whole *)
(* and ends as fetch_records can end: it returns the table, or it catches  *)
(* a failure and returns the records of the pages before it with one error *)
(* appended, or a KeyboardInterrupt (which no handler below catches) or a  *)
(* failure outside fetch_records' try leaves through backup_workspace.     *)
(***************************************************************************)
BaseIds == <<"A", "B", "C">>

TablesOf(base_id) == IF base_id = "B" THEN <<"T1", "T2">> ELSE <<"T1">>

RemoteTable(base_id, table_name) ==
    CASE base_id = "A" -> <<R1>>
      [] base_id = "B" /\ table_name = "T1" -> <<R1, R2>>
      [] base_id = "B" /\ table_name = "T2" -> <<R2>>
      [] OTHER -> <<R1c>>

\* What can leave a step of the run: any Exception, or the operator's
\* interruption.
Exc == {"Exception", "KeyboardInterrupt"}

\* 'formats' of backup_metadata
MetadataFormats ==
    <<"json", "yaml", "ndjson", "csv", "sqlite">>
    \o (IF PANDAS_AVAILABLE THEN <<"parquet">> ELSE <<>>)

\* backup_metadata.json as save_metadata writes it.
Metadata(base_info, s) ==
    [st |-> "ok", bases |-> base_info, statistics |-> s, formats |-> MetadataFormats]

\* backup_report.txt as generate_report writes it: the four counters, the
\* number of errors and the errors.
Report(s) ==
    [st |-> "ok",
     bases_processed |-> s.bases_processed,
     tables_processed |-> s.tables_processed,
     records_processed |-> s.records_processed,
     attachments_downloaded |-> s.attachments_downloaded,
     errors |-> Len(s.errors),
     lines |-> s.errors]

\* The ways a call of fetch_records for a table with the given records can
\* end.
\* Of the attachments of the records fetched, any number may have been
\* downloaded and counted (line 234).
FetchOutcomes(recs) ==
    {[kind |-> "complete", value |-> recs, e |-> None, downloaded |-> d] :
        d \in 0..Len(PageAttachments(recs))}
    \cup {[kind |-> "failed", value |-> SubSeq(recs, 1, j), e |-> e, downloaded |-> d] :
             j \in 0..Len(recs), e \in {"request failed", "write failed"},
             d \in 0..Len(PageAttachments(recs))}
    \cup {[kind |-> k, value |-> <<>>, e |-> None, downloaded |-> d] :
             k \in Exc, d \in 0..Len(PageAttachments(recs))}

\* Base and table counters bumped although the table's fetch failed: here
\* only an error-free base is counted.
UpdateStatisticsSkipsFailedBase(s, recs, last_table) ==
    [s EXCEPT !.records_processed = @ + Len(recs),
              !.tables_processed = @ + 1,
              !.bases_processed = IF last_table /\ s.errors = <<>> THEN @ + 1 ELSE @]

\* The record counter set to the size of the last table instead of added to.
UpdateStatisticsOverwrites(s, recs, last_table) ==
    [s EXCEPT !.records_processed = Len(recs),
              !.tables_processed = @ + 1,
              !.bases_processed = IF last_table THEN @ + 1 ELSE @]

\* Lines 551-556: the counters after a table, and after the last table of
\* a base.
UpdateStatistics(s, recs, last_table) ==
    [s EXCEPT !.records_processed = @ + Len(recs),
              !.tables_processed = @ + 1,
              !.bases_processed = IF last_table THEN @ + 1 ELSE @]

\* The loops never leaving the table they are at.
AfterTableStays(r) == [pc |-> "stuck", run |-> r]

\* Where the loops of lines 523 and 538 go after table r.t of base r.b.
AfterTable(r) ==
    IF r.t < Len(r.tables) THEN [pc |-> "fetch", run |-> [r EXCEPT !.t = @ + 1]]
    ELSE IF r.b < Len(r.base_info)
         THEN [pc |-> "list_tables", run |-> [r EXCEPT !.b = @ + 1, !.tables = <<>>, !.t = 0]]
    ELSE [pc |-> "save_metadata", run |-> r]

\* An exception on its way to the handlers of lines 570-577.
Raise(r, kind, at) == [r EXCEPT !.exc = [kind |-> kind, at |-> at]]

FetchVarsUnchanged ==
    UNCHANGED <<PANDAS_AVAILABLE, SQLITE_UTILS_AVAILABLE, records, offset, page_count,
                data, todo, fs, db, folder, served, sent, gets, completed, flushes,
                ret, calls, disk>>

\* Line 520: fetch_base_ids.
ListBases ==
    /\ pc = "list_bases"
    /\ \/ /\ run' = [run EXCEPT !.base_info = BaseIds, !.b = 1]
          /\ pc' = IF BaseIds = <<>> THEN "save_metadata" ELSE "list_tables"
       \/ \E kind \in Exc :
             /\ run' = Raise(run, kind, "fetch_base_ids")
             /\ pc' = "handler"
    /\ UNCHANGED stats
    /\ FetchVarsUnchanged

\* Table listing under the continue-on-error policy: a base whose tables
\* cannot be listed is passed over and the run goes to the next base.
ListTablesSkipsBase ==
    /\ pc = "list_tables"
    /\ \/ /\ stats' = stats
          /\ pc' = "fetch"
          /\ run' = [run EXCEPT !.tables = TablesOf(run.base_info[run.b]), !.t = 1]
       \/ \E kind \in Exc :
             LET next == AfterTable([run EXCEPT !.tables = <<>>, !.t = 0])
             IN  /\ run' = Raise(next.run, kind, "fetch_tables")
                 /\ pc' = next.pc
                 /\ stats' = stats
    /\ FetchVarsUnchanged

\* Lines 523-537: the base's folder and id file, then fetch_tables.
ListTables ==
    /\ pc = "list_tables"
    /\ \/ LET tables == TablesOf(run.base_info[run.b])
              r == [run EXCEPT !.tables = tables, !.t = 1]
          IN  IF tables = <<>>
              THEN /\ stats' = [stats EXCEPT !.bases_processed = @ + 1]
                   /\ pc' = AfterTable([r EXCEPT !.t = 0]).pc
                   /\ run' = AfterTable([r EXCEPT !.t = 0]).run
              ELSE /\ stats' = stats
                   /\ pc' = "fetch"
                   /\ run' = r
       \/ \E kind \in Exc :
             /\ run' = Raise(run, kind, "fetch_tables")
             /\ pc' = "handler"
             /\ stats' = stats
    /\ FetchVarsUnchanged

\* Lines 539-556: one table: its folder, fetch_records, the counters.
FetchTable ==
    /\ pc = "fetch"
    /\ LET base_id == run.base_info[run.b]
           table_name == run.tables[run.t]
       IN  \E o \in FetchOutcomes(RemoteTable(base_id, table_name)) :
              IF o.kind \in Exc
              THEN /\ run' = Raise(run, o.kind, "fetch_records")
                   /\ pc' = "handler"
                   /\ stats' = [stats EXCEPT !.attachments_downloaded = @ + o.downloaded]
              ELSE LET st == [stats EXCEPT !.attachments_downloaded = @ + o.downloaded]
                       out == IF o.kind = "complete"
                              THEN [stats |-> st, ret |-> Return(o.value)]
                              ELSE FetchExceptFor(st, table_name, o.value, o.e)
                       r == [run EXCEPT !.log = Append(@,
                                 [base |-> base_id, table |-> table_name,
                                  value |-> out.ret.value,
                                  failed |-> o.kind = "failed"])]
                   IN  /\ stats' = UpdateStatistics(out.stats, out.ret.value,
                                                    run.t = Len(run.tables))
                       /\ pc' = AfterTable(r).pc
                       /\ run' = AfterTable(r).run
    /\ FetchVarsUnchanged

\* Line 560: save_metadata.  A write that raises leaves the file as it was
\* or truncated.
SaveMetadata ==
    /\ pc = "save_metadata"
    /\ \/ /\ run' = [run EXCEPT !.metadata = Metadata(run.base_info, stats)]
          /\ pc' = "generate_report"
       \/ \E kind \in Exc, torn \in BOOLEAN :
             /\ run' = [Raise(run, kind, "save_metadata")
                           EXCEPT !.metadata = FailedWrite(@, torn)]
             /\ pc' = "handler"
    /\ UNCHANGED stats
    /\ FetchVarsUnchanged

\* Line 561: generate_report at the end of a run that got through.
GenerateReport ==
    /\ pc = "generate_report"
    /\ \/ /\ run' = [run EXCEPT !.report = Report(stats)]
          /\ pc' = "completed"
       \/ \E kind \in Exc, torn \in BOOLEAN :
             /\ run' = [Raise(run, kind, "generate_report")
                           EXCEPT !.report = FailedWrite(@, torn)]
             /\ pc' = "handler"
    /\ UNCHANGED stats
    /\ FetchVarsUnchanged

\* Lines 570-577: either handler writes the report and raises again what
\* it caught; what the report raises in the handler leaves instead.
Handler ==
    /\ pc = "handler"
    /\ \/ run' = [run EXCEPT !.report = Report(stats)]
       \/ \E kind \in Exc, torn \in BOOLEAN :
             run' = [Raise(run, kind, "handler") EXCEPT !.report = FailedWrite(@, torn)]
    /\ pc' = "raised"
    /\ UNCHANGED stats
    /\ FetchVarsUnchanged

InitRun ==
    /\ PANDAS_AVAILABLE \in BOOLEAN
    /\ SQLITE_UTILS_AVAILABLE \in BOOLEAN
    /\ pc = "list_bases"
    /\ records = <<>>
    /\ offset = None
    /\ page_count = 0
    /\ data = [records |-> <<>>]
    /\ todo = <<>>
    /\ stats = NoStats
    /\ fs = NoFiles
    /\ db = NoTable
    /\ folder = <<>>
    /\ served = <<>>
    /\ sent = <<>>
    /\ gets = <<>>
    /\ completed = 0
    /\ flushes = <<>>
    /\ ret = Running
    /\ calls = <<>>
    /\ run = NoRun
    /\ disk = NoDisk

NextRun ==
    ListBases \/ ListTables \/ FetchTable \/ SaveMetadata \/ GenerateReport \/ Handler

SpecRun == InitRun /\ [][NextRun]_vars

\* The run is sequential and every call it makes returns or raises: a step
\* that can be taken is taken.
SpecRunFair == SpecRun /\ WF_vars(NextRun)

(***************************************************************************)
(* The output directory over several runs.  Each step is the last flush of *)
(* a run for one table of base B: write_progressive_output is handed the   *)
(* table's name and the records the server holds at that time, and writes  *)
(* to the files and the row-store table that the name is mapped to.  No    *)
(* write is failed by the environment here.                                *)
(***************************************************************************)
\* A record with a field that is itself named id.
R3 == [id |-> "rec3", fields |-> ("Name" :> S("d") @@ "id" :> S("x"))]

SinkRecords == {R1, R2, R3}

\* The tables of the base, as the characters of their names.
TableNames ==
    {<<"a", "/", "b">>, <<"a", "_", "b">>, <<"a", " ", "b">>, <<"a", "b">>, <<"1", "a">>}

Digits == {"1"}

\* invalid_chars of sanitize_filename
InvalidChars == {"/", "\\", ":", "*", "?", "\"", "<", ">", "|"}

RECURSIVE LStrip(_)
LStrip(s) == IF s # <<>> /\ s[1] = " " THEN LStrip(Tail(s)) ELSE s

\* str.strip()
Strip(s) == LStrip(RStrip(s))

\* sanitize_filename: every invalid character becomes '_', then strip().
SanitizeFilename(name) ==
    Strip([i \in 1..Len(name) |-> IF name[i] \in InvalidChars THEN "_" ELSE name[i]])

\* f'{base_id}_{safe_table_name}', the stem of the table's snapshot files.
SnapshotStem(base_id, table_name) == <<base_id, "_">> \o SanitizeFilename(table_name)

\* Lines 325-327: the name of the table in the row store.
SqliteTableName(table_name) ==
    LET safe_table_name ==
            Strip(SelectSeq(table_name, LAMBDA c : c \in Alnum \cup Digits \cup {"_"}))
    IN  IF safe_table_name = <<>> \/ safe_table_name[1] \in Digits
        THEN <<"t", "a", "b", "l", "e", "_">> \o safe_table_name
        ELSE safe_table_name

\* What is at a path of the output directory, given what a path without an
\* entry holds.
At(m, path, nothing) == IF path \in DOMAIN m THEN m[path] ELSE nothing

WriteAt(m, path, content) ==
    [p \in DOMAIN m \cup {path} |-> IF p = path THEN content ELSE m[p]]

\* The tables a run may find on the server: up to MaxPageLen records.
SinkBatches == {b \in SeqsUpTo(SinkRecords, MaxPageLen) : Injective(b)}

\* write_progressive_output(base_id, table_name, records, page_count) at
\* the end of a run, on the files the earlier runs left.
SinkFlush ==
    /\ pc = "sink"
    /\ Len(flushes) < MaxRuns
    /\ \E table_name \in TableNames, recs \in SinkBatches :
          LET stem == SnapshotStem("B", table_name)
              table == SqliteTableName(SanitizeFilename(table_name))
              out == WriteProgressiveOutput(At(disk.files, stem, NoFiles),
                                            At(disk.tables, table, NoTable),
                                            recs, "none", FALSE)
          IN  /\ disk' = [files |-> WriteAt(disk.files, stem, out.fs),
                          tables |-> WriteAt(disk.tables, table, out.db)]
              /\ fs' = out.fs
              /\ db' = out.db
              /\ records' = recs
              /\ flushes' = Append(flushes, [table |-> table_name, batch |-> recs,
                                             page |-> 1, calls |-> 0,
                                             called |-> out.called, env |-> "none",
                                             errors |-> out.errors,
                                             fs |-> out.fs, db |-> out.db])
    /\ UNCHANGED <<PANDAS_AVAILABLE, SQLITE_UTILS_AVAILABLE, pc, offset, page_count, data,
                   todo, stats, folder, served, sent, gets, completed, ret, calls, run>>

InitSink ==
    /\ PANDAS_AVAILABLE \in BOOLEAN
    /\ SQLITE_UTILS_AVAILABLE \in BOOLEAN
    /\ pc = "sink"
    /\ records = <<>>
    /\ offset = None
    /\ page_count = 0
    /\ data = [records |-> <<>>]
    /\ todo = <<>>
    /\ stats = NoStats
    /\ fs = NoFiles
    /\ db = NoTable
    /\ folder = <<>>
    /\ served = <<>>
    /\ sent = <<>>
    /\ gets = <<>>
    /\ completed = 0
    /\ flushes = <<>>
    /\ ret = Running
    /\ calls = <<>>
    /\ run = NoRun
    /\ disk = NoDisk

NextSink == SinkFlush

SpecSink == InitSink /\ [][NextSink]_vars

(***************************************************************************)
(* Vocabulary of the properties.                                           *)
(***************************************************************************)
\* The ids of a list of records.
Ids(recs) == {recs[i].id : i \in 1..Len(recs)}

\* The records of the first j pages the server served.
Prefix(j) == Concat([i \in 1..j |-> served[i].records])

\* Every page request made so far was answered with a well-formed page.
AllRequestsServed == Len(sent) = Len(served)

\* The fetch ended in a page request that failed or was malformed.
PageFailed ==
    /\ pc = "returned"
    /\ Len(sent) > Len(served)

LastFlush == flushes[Len(flushes)]

\* No write was failed by the environment in any flush so far.
NoWriteFailure == \A k \in 1..Len(flushes) : flushes[k].env = "none"

Snapshots == {"json", "ndjson", "yaml", "csv", "parquet"}

\* What a complete write of format fmt leaves for the list recs.
Written(fmt, recs) ==
    CASE fmt = "json" -> WriteJson(recs)
      [] fmt = "ndjson" -> WriteNdjson(recs)
      [] fmt = "yaml" -> WriteYaml(recs)
      [] fmt = "csv" -> WriteCsv(recs)
      [] fmt = "parquet" -> WriteParquet(recs)

\* The snapshot of format fmt is one of the whole-page prefixes of the table.
IsPagePrefix(fmt) ==
    \/ fs[fmt] = Absent
    \/ \E j \in 0..Len(served) : fs[fmt] = Written(fmt, Prefix(j))

\* The ids of the rows of a table or of a flat file, and the rows of an id.
RowIds(rows) == {rows[i]["id"].parts[1] : i \in 1..Len(rows)}

RowsOf(rows, id) == {i \in 1..Len(rows) : rows[i]["id"] = Str(id)}

\* The record ids a format holds; a file that cannot be read holds none
\* and is told apart by FileOk.
FileOk(fmt) == fmt = "sqlite" \/ fs[fmt].st # "torn"

FormatIds(fmt) ==
    CASE fmt = "sqlite" -> RowIds(db.rows)
      [] fmt \in {"json", "yaml"} /\ fs[fmt].st = "ok" -> Ids(fs[fmt].doc)
      [] fmt = "ndjson" /\ fs[fmt].st = "ok" -> Ids(fs[fmt].lines)
      [] fmt \in {"csv", "parquet"} /\ fs[fmt].st = "ok" -> RowIds(fs[fmt].rows)
      [] OTHER -> {}

\* The last record of recs with the given id.
Latest(recs, id) ==
    recs[CHOOSE i \in 1..Len(recs) :
            /\ recs[i].id = id
            /\ \A j \in (i + 1)..Len(recs) : recs[j].id # id]

\* A row of the row store holds the field values of a record.
RowShows(row, record) ==
    /\ DOMAIN record.fields \subseteq DOMAIN row
    /\ \A c \in DOMAIN row :
          row[c] = IF c = "id" THEN Str(record.id)
                   ELSE IF c \in DOMAIN record.fields
                        THEN (IF record.fields[c].k = "scalar"
                              THEN Str(record.fields[c].v[1])
                              ELSE SqlCell(record.fields[c]))
                   ELSE Null

\* Calls i < j of download_attachment for the same (url, filename).
SameAttachment(i, j) ==
    /\ i < j
    /\ calls[i].url = calls[j].url
    /\ calls[i].filename = calls[j].filename

SameAs(i) ==
    {j \in 1..Len(calls) :
        calls[j].url = calls[i].url /\ calls[j].filename = calls[i].filename}

(***************************************************************************)
(* C1.  A table whose page requests all succeed is returned whole: the     *)
(* list returned is the concatenation of the pages served, in order, and   *)
(* the last page requested is the first one that carried no cursor.        *)
(***************************************************************************)
C1_ReturnsEveryPage ==
    ret.kind = "returned" /\ AllRequestsServed =>
        /\ ret.value = Prefix(Len(served))
        /\ \A i \in 1..Len(served) : Truthy(GetOffset(served[i])) <=> i < Len(served)

(***************************************************************************)
(* C2.  A table is abandoned for a failed page request only after that     *)
(* request was tried once and retried MAX_RETRIES times.                   *)
(***************************************************************************)
C2_AbandonsOnlyAfterRetries ==
    \A i \in 1..Len(stats.errors) :
        stats.errors[i].msg = "request failed" =>
            Len(sent) - Len(served) = 1 + MAX_RETRIES

FlushesFollowPages ==
    /\ Len(flushes) <= Len(served)
    /\ pc = "request" => Len(flushes) = Len(served)
    /\ \A k \in 1..Len(flushes) :
          /\ flushes[k].page = k
          /\ flushes[k].batch = Prefix(k)
          /\ flushes[k].calls = Len(PageAttachments(Prefix(k)))

C5_FormatsHoldTheBatch ==
    flushes # <<>> =>
        \A fmt \in Enabled \ {LastFlush.env} :
            FileOk(fmt) /\ FormatIds(fmt) = Ids(LastFlush.batch)

(***************************************************************************)
(* C6.  In every flush each enabled format is attempted, whichever format  *)
(* fails, and a failed write does not end the fetch of the table.          *)
(***************************************************************************)
C6_WriteFailureIsIsolated ==
    /\ \A k \in 1..Len(flushes) : flushes[k].called = Enabled
    /\ \A i \in 1..Len(stats.errors) : stats.errors[i].msg # "write failed"

(***************************************************************************)
(* C7.  The row store never holds two rows with one id, and after a flush  *)
(* the row of an id that was there before holds the field values that      *)
(* flush gave for the id.                                                  *)
(***************************************************************************)
C7_RowHoldsLatestValues ==
    /\ \A id \in RowIds(db.rows) : Cardinality(RowsOf(db.rows, id)) = 1
    /\ flushes # <<>> /\ NoWriteFailure =>
          \A id \in Ids(LastFlush.batch) \cap RowIds(db.rows) :
              \A i \in RowsOf(db.rows, id) :
                  RowShows(db.rows[i], Latest(LastFlush.batch, id))

(***************************************************************************)
(* C8.  After the last flush of a fetch that completed, the row store      *)
(* holds exactly one row for every record id of the table, with either     *)
(* row-store writer.                                                       *)
(***************************************************************************)
C8_RowStoreHoldsEveryRecord ==
    ret.kind = "returned" /\ stats.errors = <<>> /\ NoWriteFailure =>
        /\ RowIds(db.rows) = Ids(records)
        /\ \A id \in Ids(records) : Cardinality(RowsOf(db.rows, id)) = 1

(***************************************************************************)
(* C9.  As first stated: two requests for the same (url, filename) and     *)
(* folder make one download attempt and add one to attachments_downloaded. *)
(***************************************************************************)
RECURSIVE Sum(_, _)
Sum(f, idx) == IF idx = {} THEN 0
               ELSE LET x == CHOOSE y \in idx : TRUE IN f[x] + Sum(f, idx \ {x})

C9_OneAttemptForTwoRequests ==
    \A i, j \in 1..Len(calls) :
        SameAttachment(i, j) =>
            /\ Cardinality({n \in SameAs(i) : calls[n].requested}) = 1
            /\ Sum([n \in 1..Len(calls) |-> calls[n].counted], SameAs(i)) = 1

\* C9 as amended: once a request has left a file at the destination path
\* (its download completed, or broke off after the file was opened, or the
\* path was there already), a later request for the same (url, filename)
\* and folder is skipped: no network request and no counter change.  The
\* first request added one exactly when its download completed.
C9_NoSecondDownloadOnceFilePresent ==
    \A i, j \in 1..Len(calls) :
        SameAttachment(i, j) /\ calls[i].outcome # "error" =>
            /\ calls[j].outcome = "skip"
            /\ ~calls[j].requested /\ calls[j].counted = 0
            /\ calls[i].requested <=> calls[i].outcome # "skip"
            /\ calls[i].counted = (IF calls[i].outcome = "ok" THEN 1 ELSE 0)

C9_Witness ==
    \E i, j \in 1..Len(calls) :
        /\ SameAttachment(i, j)
        /\ calls[i].outcome = "ok"
        /\ calls[j].outcome = "skip"

(***************************************************************************)
(* C10.  attachments_downloaded is the number of downloads that ran to     *)
(* completion: a skipped or failed download adds nothing.                  *)
(***************************************************************************)
C10_CounterCountsCompletedDownloads ==
    /\ stats.attachments_downloaded = completed
    /\ Len(gets) = Cardinality({n \in 1..Len(calls) : calls[n].outcome # "skip"})

C10_Witness ==
    /\ completed = 1
    /\ \E n \in 1..Len(calls) : calls[n].outcome = "skip"
    /\ \E n \in 1..Len(calls) : calls[n].outcome \in {"error", "partial"}

(***************************************************************************)
(* C11.  As first stated: of two attachments with different urls whose     *)
(* filenames sanitize to the same name, the first one processed is written *)
(* and the second is skipped: no error, no network request, no counter     *)
(* change, and the file keeps the content of the first.                    *)
(***************************************************************************)
\* Calls i < j for different urls and one sanitized filename.
Collide(i, j) ==
    /\ i < j
    /\ calls[i].url # calls[j].url
    /\ SafeFilename(calls[i].filename) = SafeFilename(calls[j].filename)

\* Call i is the first one processed for its sanitized filename.
FirstFor(i) ==
    \A h \in 1..(i - 1) :
        SafeFilename(calls[h].filename) # SafeFilename(calls[i].filename)

C11_FirstProcessedWins ==
    \A i, j \in 1..Len(calls) :
        Collide(i, j) /\ FirstFor(i) =>
            /\ calls[j].outcome = "skip"
            /\ ~calls[j].requested /\ calls[j].counted = 0
            /\ SafeFilename(calls[i].filename) \in DOMAIN folder
            /\ folder[SafeFilename(calls[i].filename)].url = calls[i].url

\* C11 as amended: the first attachment whose download creates the file
\* wins.  Every later attachment with the same sanitized filename is
\* skipped without a network request or a counter change, and the file
\* keeps what that download wrote.
C11_FirstWrittenWins ==
    \A i, j \in 1..Len(calls) :
        Collide(i, j) /\ calls[i].outcome \in {"ok", "partial"} =>
            /\ calls[j].outcome = "skip"
            /\ ~calls[j].requested /\ calls[j].counted = 0
            /\ SafeFilename(calls[i].filename) \in DOMAIN folder
            /\ folder[SafeFilename(calls[i].filename)] =
                   [st |-> IF calls[i].outcome = "ok" THEN "ok" ELSE "torn",
                    url |-> calls[i].url]

C11_Witness ==
    \E i, j \in 1..Len(calls) :
        /\ Collide(i, j)
        /\ calls[i].outcome = "ok"
        /\ calls[j].outcome = "skip"
        /\ calls[i].filename # calls[j].filename

(***************************************************************************)
(* C12.  A filename that sanitizes to the empty string is replaced by a    *)
(* non-empty fallback name, and the attachment is downloaded to that path. *)
(***************************************************************************)
C12_EmptyNameGetsFallback ==
    \A n \in 1..Len(calls) :
        SafeFilename(calls[n].filename) = <<>> =>
            /\ calls[n].requested
            /\ calls[n].outcome = "ok" =>
                  \E name \in DOMAIN folder :
                      name # <<>> /\ folder[name].url = calls[n].url

(***************************************************************************)
(* C13.  A failed attachment download is not fatal to the page or to the   *)
(* table: every attachment of the page is still handed to the downloader,  *)
(* the flush of the page is made with all accumulated records, the run     *)
(* error list grows only by failed page requests and failed writes, and a  *)
(* fetch whose requests and writes all succeed returns the whole table.    *)
(***************************************************************************)
FailedDownloads == {n \in 1..Len(calls) : calls[n].outcome \in {"error", "partial"}}

C13_DownloadFailureIsNotFatal ==
    /\ pc = "attach" =>
          Len(calls) + Len(todo) = Len(PageAttachments(Prefix(Len(served))))
    /\ \A k \in 1..Len(flushes) :
          /\ flushes[k].batch = Prefix(k)
          /\ flushes[k].calls = Len(PageAttachments(Prefix(k)))
    /\ Len(stats.errors) =
          Cardinality({k \in 1..Len(flushes) : flushes[k].env \in Unguarded})
          + (IF PageFailed THEN 1 ELSE 0)
    /\ pc = "returned" /\ AllRequestsServed /\ NoWriteFailure =>
          /\ ret = Return(Prefix(Len(served)))
          /\ ~Truthy(GetOffset(served[Len(served)]))

C13_Witness ==
    /\ pc = "returned"
    /\ page_count = 2
    /\ stats.errors = <<>>
    /\ Len(flushes) = 2
    /\ \E n \in FailedDownloads : n < Len(calls) /\ flushes[1].calls = Len(calls)

(***************************************************************************)
(* Vocabulary of the properties of the run.                                *)
(***************************************************************************)
\* The tables of the workspace in the order the run visits them.
AllTables ==
    Concat([i \in 1..Len(BaseIds) |->
               [j \in 1..Len(TablesOf(BaseIds[i])) |->
                   [base |-> BaseIds[i], table |-> TablesOf(BaseIds[i])[j]]]])

\* The calls of fetch_records that ended in a table-level error.
FailedFetches == {k \in 1..Len(run.log) : run.log[k].failed}

RunEnded == pc \in {"completed", "raised"}

(***************************************************************************)
(* C14.  At the end of a run tables_processed is the number of tables      *)
(* whose fetch completed without a table-level error.                      *)
(***************************************************************************)
C14_FailedTableIsNotCounted ==
    RunEnded =>
        stats.tables_processed = Len(run.log) - Cardinality(FailedFetches)

C16_AbortStillFinalizes ==
    pc = "raised" /\ run.exc.at \notin {"handler", "save_metadata"} =>
        /\ run.report = Report(stats)
        /\ run.metadata.st = "ok"
        /\ run.metadata.statistics = stats

(***************************************************************************)
(* C17.  A KeyboardInterrupt is never swallowed, and it reaches the caller *)
(* only after finalization: the report and the persisted statistics show   *)
(* the counters and the error list of the moment of the interruption.      *)
(* (An interruption that arrives while the handler or save_metadata is     *)
(* writing is left out.)                                                   *)
(***************************************************************************)
C17_InterruptFinalizesThenPropagates ==
    run.exc.kind = "KeyboardInterrupt" =>
        /\ pc \in {"handler", "raised"}
        /\ pc = "raised" /\ run.exc.at \notin {"handler", "save_metadata"} =>
              /\ run.report = Report(stats)
              /\ run.metadata.st = "ok"
              /\ run.metadata.statistics = stats

(***************************************************************************)
(* C18.  Parquet is attempted in a flush exactly when PANDAS_AVAILABLE is  *)
(* true, 'parquet' is in the formats list of backup_metadata exactly when  *)
(* the flag is true, and so the formats every flush attempts are the       *)
(* formats the metadata declares.                                          *)
(***************************************************************************)
C18_DeclaredFormatsAreAttempted ==
    /\ "parquet" \in Range(MetadataFormats) <=> PANDAS_AVAILABLE
    /\ \A k \in 1..Len(flushes) :
          /\ "parquet" \in flushes[k].called <=> PANDAS_AVAILABLE
          /\ flushes[k].called = Range(MetadataFormats)

(***************************************************************************)
(* C19.  The CSV file of a non-empty batch has as header the sorted union  *)
(* of 'id' and the field names of all records of the batch, and one row    *)
(* per record, in which every column of the header has a cell: the value   *)
(* of the field, or the empty string where the record lacks the field.     *)
(***************************************************************************)
\* The flushes that reached write_csv with a non-empty batch.
CsvFlushes ==
    {k \in 1..Len(flushes) : "csv" \in flushes[k].called /\ flushes[k].batch # <<>>}

\* The last of them: the flush the CSV file comes from.
LastCsvFlush == flushes[CHOOSE k \in CsvFlushes : \A h \in CsvFlushes : h <= k]

FieldNames(recs) == UNION {DOMAIN recs[i].fields : i \in 1..Len(recs)}

\* Position of a name in the order of Python's sorted().
Rank(name) == CHOOSE p \in 1..Len(SortOrder) : SortOrder[p] = name

C19_CsvHeaderIsSortedUnion ==
    CsvFlushes # {} /\ LastCsvFlush.env # "csv" =>
        LET batch == LastCsvFlush.batch
            header == fs.csv.header
        IN  /\ fs.csv.st = "ok"
            /\ Range(header) = {"id"} \cup FieldNames(batch)
            /\ \A i, j \in 1..Len(header) : i < j => Rank(header[i]) < Rank(header[j])
            /\ Len(fs.csv.rows) = Len(batch)
            /\ \A i \in 1..Len(batch) :
                  /\ DOMAIN fs.csv.rows[i] = Range(header)
                  /\ \A c \in Range(header) \ {"id"} :
                        fs.csv.rows[i][c] =
                            IF c \in DOMAIN batch[i].fields
                            THEN CsvCell(batch[i].fields[c])
                            ELSE EmptyStr

C19_Witness ==
    /\ flushes # <<>>
    /\ LastFlush.batch = <<R1, R2>>
    /\ LastFlush.env = "none"
    /\ fs.csv.st = "ok"
    /\ fs.csv.header = <<"Files", "Name", "Tags", "id">>
    /\ fs.csv.rows[1]["Tags"] = EmptyStr

C22_TableListingFailureAborts ==
    run.exc.at = "fetch_tables" =>
        /\ pc \in {"handler", "raised"}
        /\ \A n \in 1..Len(run.log) :
              \E h \in 1..(run.b - 1) : run.log[n].base = run.base_info[h]
        /\ stats.bases_processed = run.b - 1
        /\ pc = "raised" => run.report = Report(stats)

C22_Witness ==
    /\ pc = "raised"
    /\ run.exc = [kind |-> "Exception", at |-> "fetch_tables"]
    /\ run.b = 2
    /\ Len(run.log) = 1
    /\ run.report.st = "ok"
    /\ run.report.bases_processed = 1

(***************************************************************************)
(* C24.  In a run the four counters never decrease and the error list is   *)
(* only appended to; records_processed is the sum of the lengths of the    *)
(* lists the fetches so far returned, partial ones included, and           *)
(* bases_processed counts the bases all of whose tables were handled.      *)
(***************************************************************************)
\* The bases every table of which has an entry in the log of fetches.
HandledBases ==
    {h \in 1..Len(BaseIds) :
        \A j \in 1..Len(TablesOf(BaseIds[h])) :
            \E n \in 1..Len(run.log) :
                /\ run.log[n].base = BaseIds[h]
                /\ run.log[n].table = TablesOf(BaseIds[h])[j]}

CountersAddUp ==
    /\ stats.records_processed =
          Sum([n \in 1..Len(run.log) |-> Len(run.log[n].value)], 1..Len(run.log))
    /\ stats.tables_processed = Len(run.log)
    /\ stats.bases_processed = Cardinality(HandledBases)

CountersGrow ==
    /\ stats'.bases_processed >= stats.bases_processed
    /\ stats'.tables_processed >= stats.tables_processed
    /\ stats'.records_processed >= stats.records_processed
    /\ stats'.attachments_downloaded >= stats.attachments_downloaded
    /\ Len(stats'.errors) >= Len(stats.errors)
    /\ SubSeq(stats'.errors, 1, Len(stats.errors)) = stats.errors

C24_CountersOnlyGrow == []CountersAddUp /\ [][CountersGrow]_vars

C24_Witness ==
    /\ pc = "completed"
    /\ Len(stats.errors) = 2
    /\ stats.attachments_downloaded = 3
    /\ stats.records_processed = 3
    /\ stats.bases_processed = 3

(***************************************************************************)
(* C23.  Every run of backup_workspace ends, normally or aborted, whatever *)
(* failures occur on the way; no table is fetched twice and no base is     *)
(* visited twice.                                                          *)
(***************************************************************************)
\* The log of fetches names no table twice and follows the order of the
\* bases: a base, once left, is not come back to.
EachTableOnce ==
    \A m, n \in 1..Len(run.log) :
        m < n =>
            /\ <<run.log[m].base, run.log[m].table>> # <<run.log[n].base, run.log[n].table>>
            /\ \E g, h \in 1..Len(BaseIds) :
                  /\ g <= h
                  /\ run.log[m].base = BaseIds[g]
                  /\ run.log[n].base = BaseIds[h]

C26_NoFileUnlessCompleted ==
    /\ \A name \in DOMAIN folder : folder[name].st = "ok"
    /\ \A i, j \in 1..Len(calls) :
          SameAttachment(i, j) /\ calls[i].outcome = "partial" /\ j = i + 1 =>
              calls[j].requested

(***************************************************************************)
(* C25.  Two tables of a base never share an output target: what the last  *)
(* flush of a table wrote to its snapshot files and to its row-store       *)
(* table is still there after any flush of another table.                  *)
(***************************************************************************)
\* Flush k is the last one made for its table.
LastOfItsTable(k) ==
    \A h \in (k + 1)..Len(flushes) : flushes[h].table # flushes[k].table

C25_TablesHaveTheirOwnTargets ==
    \A k \in 1..Len(flushes) :
        LastOfItsTable(k) =>
            /\ disk.files[SnapshotStem("B", flushes[k].table)] = flushes[k].fs
            /\ disk.tables[SqliteTableName(SanitizeFilename(flushes[k].table))]
                   = flushes[k].db

(***************************************************************************)
(* C27.  In every format the id written for a record is the record's own   *)
(* id, also when the record has a field named id, and the flat formats     *)
(* and the row store agree on it.                                          *)
(***************************************************************************)
C27_IdIsTheRecordId ==
    Len(flushes) = 1 /\ LastFlush.batch # <<>> /\ SQLITE_UTILS_AVAILABLE =>
        LET batch == LastFlush.batch
        IN  /\ \A i \in 1..Len(batch) :
                  /\ fs.json.doc[i].id = batch[i].id
                  /\ fs.ndjson.lines[i].id = batch[i].id
                  /\ fs.csv.rows[i]["id"] = Str(batch[i].id)
                  /\ PANDAS_AVAILABLE => fs.parquet.rows[i]["id"] = Str(batch[i].id)
            /\ RowIds(db.rows) = Ids(batch)
            /\ RowIds(fs.csv.rows) = RowIds(db.rows)

(***************************************************************************)
(* C28.  After a later run into the same output directory no format of a   *)
(* table still holds a record of an earlier run that the table no longer   *)
(* has, also when the table became empty.                                  *)
(***************************************************************************)
\* Every flush so far was for the same table: one run after the other.
SameTableRuns == \A k \in 1..Len(flushes) : flushes[k].table = LastFlush.table

\* The ids of earlier runs that the table of the last run lacks.
RemovedIds ==
    UNION {Ids(flushes[k].batch) : k \in 1..(Len(flushes) - 1)} \ Ids(LastFlush.batch)

C28_RerunDropsRemovedRecords ==
    flushes # <<>> /\ SameTableRuns =>
        \A fmt \in Enabled : FormatIds(fmt) \cap RemovedIds = {}

====
